---- MODULE Spec2Model ----
(***************************************************************************)
(* HR screening agent: the deterministic scoring core (skill               *)
(* normalisation, token matching, coverage, experience, weighted decision) *)
(* and the pipeline that evaluates and ranks the candidates.               *)
(*                                                                         *)
(* Text is modelled as a sequence of one-character strings, so that        *)
(* lower(), strip(), split() and int() are computed, not assumed.          *)
(* A Python float is modelled as the IEEE-754 double it is: every          *)
(* arithmetic result is rounded to 53 significant bits, ties to even.      *)
(***************************************************************************)
EXTENDS Integers, Sequences, FiniteSets, TLC

\* ------------------------------------------------------------------
\* Python float (binary64), for the values the scoring produces.
\* A non-negative double x with 2^-7 <= x < 2^15 (or x = 0) is held as the
\* integer x * 2^60, written little-endian in NLimbs limbs of LimbBits bits.
\* ------------------------------------------------------------------

LimbBits == 15
Base == 2^LimbBits
NLimbs == 5
Mantissa == 53

RECURSIVE AddFrom(_, _, _, _)
AddFrom(x, y, i, carry) ==
    IF i > NLimbs THEN <<>>
    ELSE LET s == x[i] + y[i] + carry
         IN  <<s % Base>> \o AddFrom(x, y, i + 1, s \div Base)

BigAdd(x, y) == AddFrom(x, y, 1, 0)

RECURSIVE MulFrom(_, _, _, _)
MulFrom(x, k, i, carry) ==
    IF i > NLimbs THEN <<>>
    ELSE LET p == x[i] * k + carry
         IN  <<p % Base>> \o MulFrom(x, k, i + 1, p \div Base)

BigMulSmall(x, k) == MulFrom(x, k, 1, 0)

\* floor(x / n), limb by limb from the most significant one
RECURSIVE DivFrom(_, _, _, _)
DivFrom(x, n, i, rem) ==
    IF i = 0 THEN <<>>
    ELSE LET cur == rem * Base + x[i]
         IN  DivFrom(x, n, i - 1, cur % n) \o <<cur \div n>>

BigDivSmall(x, n) == DivFrom(x, n, NLimbs, 0)

RECURSIVE BitsOf(_)
BitsOf(v) == IF v = 0 THEN 0 ELSE 1 + BitsOf(v \div 2)

RECURSIVE TopLimb(_, _)
TopLimb(x, i) == IF i = 0 THEN 0 ELSE IF x[i] # 0 THEN i ELSE TopLimb(x, i - 1)

BitLen(x) ==
    LET t == TopLimb(x, NLimbs)
    IN  IF t = 0 THEN 0 ELSE LimbBits * (t - 1) + BitsOf(x[t])

\* round an exact result to the nearest double, ties to even; sticky says
\* that non-zero bits were already dropped below the last limb
Round53(x, sticky) ==
    LET drop == BitLen(x) - Mantissa
    IN  IF drop <= 0 THEN x
        ELSE LET unit == 2^drop
                 low  == x[1] % unit
                 half == unit \div 2
                 kept == [x EXCEPT ![1] = x[1] - low]
                 odd  == (x[1] \div unit) % 2 = 1
                 up   == \/ low > half
                         \/ low = half /\ (sticky \/ odd)
             IN  IF up THEN BigAdd(kept, <<unit, 0, 0, 0, 0>>) ELSE kept

FloatOfInt(k) == <<0, 0, 0, 0, k>>

FloatZero == FloatOfInt(0)

\* int / int  (true division)
FloatDiv(m, n) ==
    LET num == FloatOfInt(m)
        q   == BigDivSmall(num, n)
    IN  Round53(q, BigMulSmall(q, n) # num)

\* float * int
FloatMulInt(x, k) == Round53(BigMulSmall(x, k), FALSE)

\* float + float
FloatAdd(x, y) == Round53(BigAdd(x, y), FALSE)

\* int(float): truncation toward zero
FloatToInt(x) == x[NLimbs]

\* x <= y on floats
RECURSIVE LeqFrom(_, _, _)
LeqFrom(x, y, i) ==
    IF i = 0 THEN TRUE
    ELSE IF x[i] # y[i] THEN x[i] < y[i]
    ELSE LeqFrom(x, y, i - 1)

FloatLeq(x, y) == LeqFrom(x, y, NLimbs)

\* round(x, 2): the double nearest to h/100, held as the integer h, where h
\* is x*100 rounded half-to-even on the exact binary value of x
Round2(x) ==
    LET y    == BigMulSmall(x, 100)
        ip   == y[NLimbs]
        mid  == Base \div 2
        rest == y[1] + y[2] + y[3]
        gt   == y[4] > mid \/ (y[4] = mid /\ rest > 0)
        eq   == y[4] = mid /\ rest = 0
    IN  IF gt \/ (eq /\ ip % 2 = 1) THEN ip + 1 ELSE ip

\* ------------------------------------------------------------------
\* Python str, as a sequence of one-character strings
\* ------------------------------------------------------------------

UpperChars == <<"A", "B", "C", "D", "E", "F", "G", "H", "I", "J", "K", "L", "M",
                "N", "O", "P", "Q", "R", "S", "T", "U", "V", "W", "X", "Y", "Z">>

LowerChars == <<"a", "b", "c", "d", "e", "f", "g", "h", "i", "j", "k", "l", "m",
                "n", "o", "p", "q", "r", "s", "t", "u", "v", "w", "x", "y", "z">>

DigitChars == <<"0", "1", "2", "3", "4", "5", "6", "7", "8", "9">>

IsSpace(c) == c \in {" ", "\t"}

IsDigit(c) == \E i \in DOMAIN DigitChars : DigitChars[i] = c

DigitVal(c) == (CHOOSE i \in DOMAIN DigitChars : DigitChars[i] = c) - 1

ToLower == [c \in {UpperChars[i] : i \in DOMAIN UpperChars} |->
                LowerChars[CHOOSE i \in DOMAIN UpperChars : UpperChars[i] = c]]

LowerChar(c) == IF c \in DOMAIN ToLower THEN ToLower[c] ELSE c

\* str.lower()
RECURSIVE lower(_)
lower(s) == IF s = <<>> THEN <<>> ELSE <<LowerChar(Head(s))>> \o lower(Tail(s))

RECURSIVE lstrip(_)
lstrip(s) == IF s # <<>> /\ IsSpace(Head(s)) THEN lstrip(Tail(s)) ELSE s

RECURSIVE rstrip(_)
rstrip(s) ==
    IF s # <<>> /\ IsSpace(s[Len(s)]) THEN rstrip(SubSeq(s, 1, Len(s) - 1)) ELSE s

\* str.strip()
strip(s) == rstrip(lstrip(s))

\* str.split(): the maximal runs of non-whitespace characters, in order
RECURSIVE SplitFrom(_, _, _)
SplitFrom(s, i, cur) ==
    IF i > Len(s) THEN (IF cur = <<>> THEN <<>> ELSE <<cur>>)
    ELSE IF IsSpace(s[i])
         THEN (IF cur = <<>> THEN <<>> ELSE <<cur>>) \o SplitFrom(s, i + 1, <<>>)
         ELSE SplitFrom(s, i + 1, Append(cur, s[i]))

split(s) == SplitFrom(s, 1, <<>>)

\* set(list)
set(l) == {l[i] : i \in DOMAIN l}

\* The outcome of a call that may raise: error is "" when it returned value.
Returned(v) == [error |-> "", value |-> v]

Raised(e) == [error |-> e, value |-> 0]

\* the digits of an int literal, where single underscores may separate digits
IsIntBody(t) ==
    /\ t # <<>>
    /\ IsDigit(t[1])
    /\ IsDigit(t[Len(t)])
    /\ \A i \in DOMAIN t : IsDigit(t[i]) \/ t[i] = "_"
    /\ \A i \in 1..(Len(t) - 1) : ~(t[i] = "_" /\ t[i + 1] = "_")

RECURSIVE IntBodyValue(_, _)
IntBodyValue(t, acc) ==
    IF t = <<>> THEN acc
    ELSE IF Head(t) = "_" THEN IntBodyValue(Tail(t), acc)
    ELSE IntBodyValue(Tail(t), 10 * acc + DigitVal(Head(t)))

\* int(str): surrounding whitespace and one sign are accepted
int(s) ==
    LET t    == strip(s)
        sign == t # <<>> /\ Head(t) \in {"+", "-"}
        body == IF sign THEN Tail(t) ELSE t
    IN  IF ~IsIntBody(body) THEN Raised("ValueError")
        ELSE IF sign /\ Head(t) = "-" THEN Returned(0 - IntBodyValue(body, 0))
        ELSE Returned(IntBodyValue(body, 0))

\* ------------------------------------------------------------------
\* matching_engine.py
\* ------------------------------------------------------------------

s_postgres == <<"p", "o", "s", "t", "g", "r", "e", "s">>
s_postgre_sql == <<"p", "o", "s", "t", "g", "r", "e", " ", "s", "q", "l">>
s_postgresql == <<"p", "o", "s", "t", "g", "r", "e", "s", "q", "l">>
s_rest_api == <<"r", "e", "s", "t", " ", "a", "p", "i">>
s_rest_apis == <<"r", "e", "s", "t", " ", "a", "p", "i", "s">>
s_restful_api == <<"r", "e", "s", "t", "f", "u", "l", " ", "a", "p", "i">>
s_fast_api == <<"f", "a", "s", "t", " ", "a", "p", "i">>
s_fastapi == <<"f", "a", "s", "t", "a", "p", "i">>
s_aws_ec2 == <<"a", "w", "s", " ", "e", "c", "2">>
s_aws == <<"a", "w", "s">>

\* variant: an alias that leads to another alias
SKILL_ALIASES_chained ==
    (s_postgres :> s_postgre_sql) @@
    (s_postgre_sql :> s_postgresql) @@
    (s_rest_api :> s_restful_api) @@
    (s_rest_apis :> s_restful_api) @@
    (s_fast_api :> s_fastapi) @@
    (s_aws_ec2 :> s_aws)

SKILL_ALIASES ==
    (s_postgres :> s_postgresql) @@
    (s_postgre_sql :> s_postgresql) @@
    (s_rest_api :> s_restful_api) @@
    (s_rest_apis :> s_restful_api) @@
    (s_fast_api :> s_fastapi) @@
    (s_aws_ec2 :> s_aws)

\* dict.get(key, default)
get(d, key, default) == IF key \in DOMAIN d THEN d[key] ELSE default

normalize_skill(skill) ==
    LET folded == strip(lower(skill))
    IN  get(SKILL_ALIASES, folded, folded)

\* variant: a job token that is contained in a resume token matches it
skill_matches_substring(jd_skill, resume_skill) ==
    \E t \in set(split(jd_skill)), u \in set(split(resume_skill)) :
        \E k \in 0..(Len(u) - Len(t)) : SubSeq(u, k + 1, k + Len(t)) = t

skill_matches(jd_skill, resume_skill) ==
    LET jd_tokens     == set(split(jd_skill))
        resume_tokens == set(split(resume_skill))
    IN  Cardinality(jd_tokens \cap resume_tokens) > 0

\* variant: every matching resume skill counts
RECURSIVE MatchedFrom_double(_, _, _, _)
MatchedFrom_double(jd_normalized, resume_normalized, i, matched) ==
    IF i > Len(jd_normalized) THEN matched
    ELSE MatchedFrom_double(jd_normalized, resume_normalized, i + 1,
             matched + Cardinality({k \in DOMAIN resume_normalized :
                            skill_matches(jd_normalized[i], resume_normalized[k])}))

\* the loop of compute_skill_match over jd_normalized[i..]
RECURSIVE MatchedFrom(_, _, _, _)
MatchedFrom(jd_normalized, resume_normalized, i, matched) ==
    IF i > Len(jd_normalized) THEN matched
    ELSE IF \E k \in DOMAIN resume_normalized :
                skill_matches(jd_normalized[i], resume_normalized[k])
         THEN MatchedFrom(jd_normalized, resume_normalized, i + 1, matched + 1)
         ELSE MatchedFrom(jd_normalized, resume_normalized, i + 1, matched)

\* [normalize_skill(s) for s in skills]
RECURSIVE NormalizeAll(_)
NormalizeAll(skills) ==
    IF skills = <<>> THEN <<>>
    ELSE <<normalize_skill(Head(skills))>> \o NormalizeAll(Tail(skills))

\* variant: an empty job list counts as fully covered
Coverage_vacuous(jd_normalized, resume_normalized) ==
    IF Len(jd_normalized) > 0
    THEN FloatDiv(MatchedFrom(jd_normalized, resume_normalized, 1, 0), Len(jd_normalized))
    ELSE FloatOfInt(1)

\* compute_skill_match once both lists are normalized
Coverage(jd_normalized, resume_normalized) ==
    IF Len(jd_normalized) > 0
    THEN FloatDiv(MatchedFrom(jd_normalized, resume_normalized, 1, 0), Len(jd_normalized))
    ELSE FloatZero

compute_skill_match(jd_skills, resume_skills) ==
    Coverage(NormalizeAll(jd_skills), NormalizeAll(resume_skills))

REQUIRED_WEIGHT == 60
NICE_WEIGHT == 20
EXPERIENCE_WEIGHT == 20
ACCEPT_THRESHOLD == 70

\* the MatchResult that compute_match builds from its local values
MatchResult(required_score, nice_score, experience_ok, final_score, decision) ==
    [required_skills_match |-> Round2(required_score),
     nice_to_have_match    |-> Round2(nice_score),
     experience_match      |-> experience_ok,
     final_score           |-> final_score,
     decision              |-> decision,
     reason                |-> IF decision = "Accept"
                               THEN "Strong overall match"
                               ELSE "Meets experience but lacks core backend requirements"]

\* variant: the threshold itself is rejected
Decide_strict(required_score, nice_score, experience_ok, final_score) ==
    MatchResult(required_score, nice_score, experience_ok, final_score,
                IF final_score > ACCEPT_THRESHOLD THEN "Accept" ELSE "Reject")

\* compute_match from the weighted score on
Decide(required_score, nice_score, experience_ok, final_score) ==
    MatchResult(required_score, nice_score, experience_ok, final_score,
                IF final_score >= ACCEPT_THRESHOLD THEN "Accept" ELSE "Reject")

\* variant: the weights of the two skill lists exchanged
Score_swapped(required_score, nice_score, experience_ok) ==
    Decide(required_score, nice_score, experience_ok,
           FloatToInt(FloatAdd(FloatAdd(FloatMulInt(required_score, NICE_WEIGHT),
                                        FloatMulInt(nice_score, REQUIRED_WEIGHT)),
                               FloatOfInt((IF experience_ok THEN 1 ELSE 0)
                                          * EXPERIENCE_WEIGHT))))

\* compute_match from the experience check on
Score(required_score, nice_score, experience_ok) ==
    Decide(required_score, nice_score, experience_ok,
           FloatToInt(FloatAdd(FloatAdd(FloatMulInt(required_score, REQUIRED_WEIGHT),
                                        FloatMulInt(nice_score, NICE_WEIGHT)),
                               FloatOfInt((IF experience_ok THEN 1 ELSE 0)
                                          * EXPERIENCE_WEIGHT))))

\* compute_match reads only candidate.skills of the CandidateProfile
compute_match(candidate, experience_years, job) ==
    Score(compute_skill_match(job.required_skills, candidate.skills),
          compute_skill_match(job.nice_to_have_skills, candidate.skills),
          experience_years >= job.minimum_experience_years)

\* ------------------------------------------------------------------
\* extraction_agent.py
\* ------------------------------------------------------------------

s_present == <<"p", "r", "e", "s", "e", "n", "t">>

\* variant: only the lower-case "present" is recognised
RECURSIVE ExperienceFrom_case_sensitive(_, _, _, _)
ExperienceFrom_case_sensitive(roles, current_year, i, total_years) ==
    IF i > Len(roles) THEN Returned(total_years)
    ELSE LET start      == roles[i][1]
             end        == roles[i][2]
             start_year == int(start)
             end_year   == IF end = s_present
                           THEN Returned(current_year)
                           ELSE int(end)
         IN  IF start_year.error # "" THEN start_year
             ELSE IF end_year.error # "" THEN end_year
             ELSE ExperienceFrom_case_sensitive(roles, current_year, i + 1,
                      total_years + (end_year.value - start_year.value))

\* the loop of calculate_total_experience over roles[i..]
RECURSIVE ExperienceFrom(_, _, _, _)
ExperienceFrom(roles, current_year, i, total_years) ==
    IF i > Len(roles) THEN Returned(total_years)
    ELSE LET start      == roles[i][1]
             end        == roles[i][2]
             start_year == int(start)
             end_year   == IF lower(end) = s_present
                           THEN Returned(current_year)
                           ELSE int(end)
         IN  IF start_year.error # "" THEN start_year
             ELSE IF end_year.error # "" THEN end_year
             ELSE ExperienceFrom(roles, current_year, i + 1,
                                 total_years + (end_year.value - start_year.value))

\* current_year is datetime.now().year, read once per call
calculate_total_experience(roles, current_year) ==
    ExperienceFrom(roles, current_year, 1, 0)

\* ------------------------------------------------------------------
\* pipeline.py
\* ------------------------------------------------------------------

\* variant: x goes in front of the entries with its own score
RECURSIVE InsertRanked_unstable(_, _)
InsertRanked_unstable(l, x) ==
    IF l = <<>> THEN <<x>>
    ELSE IF Head(l)[2].final_score > x[2].final_score
         THEN <<Head(l)>> \o InsertRanked_unstable(Tail(l), x)
         ELSE <<x>> \o l

\* where x goes in a list already ordered by final_score, highest first:
\* behind every entry whose score is at least its own
RECURSIVE InsertRanked(_, _)
InsertRanked(l, x) ==
    IF l = <<>> THEN <<x>>
    ELSE IF Head(l)[2].final_score >= x[2].final_score
         THEN <<Head(l)>> \o InsertRanked(Tail(l), x)
         ELSE <<x>> \o l

RECURSIVE SortedFrom(_, _, _)
SortedFrom(l, i, acc) ==
    IF i > Len(l) THEN acc ELSE SortedFrom(l, i + 1, InsertRanked(acc, l[i]))

\* sorted(results, key=lambda x: x[1].final_score, reverse=True)
sorted(l) == SortedFrom(l, 1, <<>>)

VARIABLES
    pc,                \* "stage2", "done", "failed" in the pipeline; "call", "return" in a single call
    current_year,      \* datetime.now().year
    job_requirements,  \* run_screening_pipeline: the extracted JobRequirements
    candidates,        \* run_screening_pipeline: the extracted CandidateProfiles
    i,                 \* run_screening_pipeline: position of the stage-2 loop in candidates
    experience_years,  \* run_screening_pipeline: experience of the candidate last evaluated
    results,           \* run_screening_pipeline: (name, MatchResult) per evaluated candidate
    ranked,            \* run_screening_pipeline: results in report order
    raised,            \* the exception that left run_screening_pipeline, "" if none
    args,              \* a single call: the function called and its arguments
    ret                \* a single call: what it returned

vars == <<pc, current_year, job_requirements, candidates, i, experience_years,
          results, ranked, raised, args, ret>>

pipeline_vars == <<job_requirements, candidates, i, experience_years, results, ranked, raised>>

\* ------------------------------------------------------------------
\* Inputs
\* ------------------------------------------------------------------

MaxCandidates == 3
MaxSkills == 2
MaxJobSkills == 7
MaxRoles == 2

s_Postgres_padded == <<" ", "P", "o", "s", "t", "g", "r", "e", "s", " ">>
s_REST_APIs == <<"R", "E", "S", "T", " ", "A", "P", "I", "s">>
s_api_testing == <<"a", "p", "i", " ", "t", "e", "s", "t", "i", "n", "g">>
s_java == <<"j", "a", "v", "a">>
s_javascript == <<"j", "a", "v", "a", "s", "c", "r", "i", "p", "t">>
s_python == <<"p", "y", "t", "h", "o", "n">>
s_Python == <<"P", "y", "t", "h", "o", "n">>
s_sql == <<"s", "q", "l">>
s_SQL_tab == <<"S", "Q", "L", "\t">>
s_docker == <<"d", "o", "c", "k", "e", "r">>
s_empty == <<>>
s_blank == <<" ">>
s_AWS_EC2 == <<"A", "W", "S", " ", "E", "C", "2">>
s_python_sql == <<"p", "y", "t", "h", "o", "n", " ", " ", "s", "q", "l">>
s_y2017 == <<"2", "0", "1", "7">>
s_y2019 == <<"2", "0", "1", "9">>
s_y2021 == <<"2", "0", "2", "1">>
s_y2019_padded == <<" ", "2", "0", "1", "9">>
s_y20x9 == <<"2", "0", "x", "9">>
s_Present == <<"P", "r", "e", "s", "e", "n", "t">>
s_PRESENT == <<"P", "R", "E", "S", "E", "N", "T">>
s_Present_padded == <<"P", "r", "e", "s", "e", "n", "t", " ">>
s_na == <<"n", "/", "a">>

\* all sequences over S of length at most n
SeqUpTo(S, n) == UNION {[1..k -> S] : k \in 0..n}

\* n copies of x
Repeat(x, n) == [k \in 1..n |-> x]

ThisYear == 2026

CurrentYears == {ThisYear - 1, ThisYear}

Labels ==
    {s_postgres, s_Postgres_padded, s_postgre_sql, s_postgresql, s_rest_apis,
     s_REST_APIs, s_restful_api, s_api_testing, s_java, s_javascript, s_python,
     s_Python, s_sql, s_SQL_tab, s_AWS_EC2, s_aws, s_fast_api, s_rest_api, s_empty,
     s_blank,
     s_python_sql}

ListLabels == {s_sql, s_postgre_sql, s_REST_APIs, s_api_testing}

SkillLists == SeqUpTo(ListLabels, MaxSkills)

Roles ==
    {<<s_y2017, s_y2019>>, <<s_y2019, s_y2021>>, <<s_y2017, s_y2021>>,
     <<s_y2021, s_y2019>>, <<s_y2019, s_Present>>, <<s_y2019, s_PRESENT>>,
     <<s_y2019_padded, s_present>>, <<s_y20x9, s_y2021>>, <<s_y2017, s_na>>,
     <<s_Present, s_y2021>>, <<s_y2019, s_Present_padded>>}

RoleLists == SeqUpTo(Roles, MaxRoles)

\* a job list of n entries of which the first m are a skill the candidate may have
HitMissLists(hit, miss) ==
    {Repeat(hit, m) \o Repeat(miss, n - m) : <<m, n>> \in
        {mn \in (0..MaxJobSkills) \X (0..MaxJobSkills) : mn[1] <= mn[2]}}

MatchJobs ==
    [required_skills          : HitMissLists(s_python, s_sql),
     nice_to_have_skills      : HitMissLists(s_postgres, s_docker),
     minimum_experience_years : {3}]

MatchCandidates == {[name |-> "Asha", roles |-> <<>>, skills |-> sk] :
                        sk \in {<<s_Python, s_Postgres_padded>>, <<>>}}

ExperienceValues == {2, 3}

PipelineJobs ==
    {[required_skills |-> <<s_python, s_sql>>, nice_to_have_skills |-> <<s_docker>>,
      minimum_experience_years |-> 5],
     [required_skills |-> <<>>, nice_to_have_skills |-> <<s_python>>,
      minimum_experience_years |-> 0]}

PipelineRoles ==
    {<< <<s_y2019, s_Present>> >>,
     << <<s_y2017, s_y2019>>, <<s_y2019, s_y2021>> >>,
     << <<s_y20x9, s_y2021>>, <<s_y2017, s_y2019>> >>,
     << <<s_y2017, s_y2019>>, <<s_y2019, s_na>> >>}

PipelineSkills == {<<s_Python, s_SQL_tab>>, <<s_Python>>}

Names == <<"Asha", "Ben", "Chen", "Dina", "Emil">>

\* the candidate lists: the k-th resume is the k-th name's
CandidateLists ==
    UNION {{[k \in 1..n |-> [name |-> Names[k], roles |-> f[k][1], skills |-> f[k][2]]] :
                f \in [1..n -> PipelineRoles \X PipelineSkills]} : n \in 0..MaxCandidates}

NoJob == [required_skills |-> <<>>, nice_to_have_skills |-> <<>>,
          minimum_experience_years |-> 0]

\* ------------------------------------------------------------------
\* The pipeline: run_screening_pipeline
\* ------------------------------------------------------------------

Init ==
    /\ pc = "stage2"
    /\ current_year \in CurrentYears
    /\ job_requirements \in PipelineJobs
    /\ candidates \in CandidateLists
    /\ i = 1
    /\ experience_years = 0
    /\ results = <<>>
    /\ ranked = <<>>
    /\ raised = ""
    /\ args = <<>>
    /\ ret = <<>>

\* variant: a candidate whose roles do not parse is scored with no experience
EvaluateCandidate_scores_zero ==
    /\ pc = "stage2"
    /\ i <= Len(candidates)
    /\ LET candidate == candidates[i]
           years     == calculate_total_experience(candidate.roles, current_year)
           counted   == IF years.error # "" THEN 0 ELSE years.value
       IN  /\ experience_years' = counted
           /\ results' = Append(results,
                  <<candidate.name, compute_match(candidate, counted, job_requirements)>>)
           /\ i' = i + 1
           /\ UNCHANGED <<pc, raised>>
    /\ UNCHANGED <<current_year, job_requirements, candidates, ranked, args, ret>>

\* one pass of the stage-2 loop; an exception leaves the pipeline
EvaluateCandidate ==
    /\ pc = "stage2"
    /\ i <= Len(candidates)
    /\ LET candidate == candidates[i]
           years     == calculate_total_experience(candidate.roles, current_year)
       IN  IF years.error # ""
           THEN /\ pc' = "failed"
                /\ raised' = years.error
                /\ UNCHANGED <<i, experience_years, results>>
           ELSE /\ experience_years' = years.value
                /\ results' = Append(results,
                       <<candidate.name,
                         compute_match(candidate, years.value, job_requirements)>>)
                /\ i' = i + 1
                /\ UNCHANGED <<pc, raised>>
    /\ UNCHANGED <<current_year, job_requirements, candidates, ranked, args, ret>>

\* after the loop: the ranked report
RankResults ==
    /\ pc = "stage2"
    /\ i > Len(candidates)
    /\ ranked' = sorted(results)
    /\ pc' = "done"
    /\ UNCHANGED <<current_year, job_requirements, candidates, i, experience_years,
                   results, raised, args, ret>>

Next == EvaluateCandidate \/ RankResults

Spec == Init /\ [][Next]_vars

\* ------------------------------------------------------------------
\* One call of one function of the core
\* ------------------------------------------------------------------

CallInit ==
    /\ pc = "call"
    /\ job_requirements = NoJob
    /\ candidates = <<>>
    /\ i = 1
    /\ experience_years = 0
    /\ results = <<>>
    /\ ranked = <<>>
    /\ raised = ""
    /\ ret = <<>>
    /\ \/ /\ current_year = ThisYear
          /\ \/ \E skill \in Labels :
                  args = [fn |-> "normalize_skill", skill |-> skill]
             \/ \E jd_skill \in Labels, resume_skill \in Labels :
                  args = [fn |-> "skill_matches", jd_skill |-> jd_skill,
                          resume_skill |-> resume_skill]
             \/ \E jd_skills \in SkillLists, resume_skills \in SkillLists :
                  args = [fn |-> "compute_skill_match", jd_skills |-> jd_skills,
                          resume_skills |-> resume_skills]
             \/ \E candidate \in MatchCandidates, years \in ExperienceValues,
                   job \in MatchJobs :
                  args = [fn |-> "compute_match", candidate |-> candidate,
                          experience_years |-> years, job |-> job]
       \/ /\ current_year \in CurrentYears
          /\ \E roles \in RoleLists :
                  args = [fn |-> "calculate_total_experience", roles |-> roles]

Return(value) ==
    /\ ret' = value
    /\ pc' = "return"
    /\ UNCHANGED <<current_year, args>>
    /\ UNCHANGED pipeline_vars

CallNormalizeSkill ==
    /\ pc = "call"
    /\ args.fn = "normalize_skill"
    /\ Return(normalize_skill(args.skill))

CallSkillMatches ==
    /\ pc = "call"
    /\ args.fn = "skill_matches"
    /\ Return(skill_matches(args.jd_skill, args.resume_skill))

CallComputeSkillMatch ==
    /\ pc = "call"
    /\ args.fn = "compute_skill_match"
    /\ Return(compute_skill_match(args.jd_skills, args.resume_skills))

CallCalculateTotalExperience ==
    /\ pc = "call"
    /\ args.fn = "calculate_total_experience"
    /\ Return(calculate_total_experience(args.roles, current_year))

CallComputeMatch ==
    /\ pc = "call"
    /\ args.fn = "compute_match"
    /\ Return(compute_match(args.candidate, args.experience_years, args.job))

CallNext ==
    \/ CallNormalizeSkill
    \/ CallSkillMatches
    \/ CallComputeSkillMatch
    \/ CallCalculateTotalExperience
    \/ CallComputeMatch

CallSpec == CallInit /\ [][CallNext]_vars

\* ------------------------------------------------------------------
\* Properties
\* ------------------------------------------------------------------

ReturnedFrom(fn) == pc = "return" /\ args.fn = fn

\* how many entries of wanted token-match some entry of available
MatchedAmong(wanted, available) ==
    Cardinality({k \in DOMAIN wanted :
        \E j \in DOMAIN available : skill_matches(wanted[k], available[j])})

\* the same, after normalizing both lists
MatchedCount(wanted, available) ==
    MatchedAmong(NormalizeAll(wanted), NormalizeAll(available))

\* floor(m/n * 60 + m2/n2 * 20 + bonus) in exact arithmetic, a fraction with an
\* empty list counting 0
ExactScore(m, n, m2, n2, bonus) ==
    LET d  == IF n = 0 THEN 1 ELSE n
        d2 == IF n2 = 0 THEN 1 ELSE n2
    IN  (60 * m * d2 + 20 * m2 * d + bonus * d * d2) \div (d * d2)

\* C1: compute_match returns final_score = floor(required_score*60 + nice_score*20
\* + (20 if experience_years >= minimum_experience_years else 0)), the two scores
\* being the exact coverage fractions, and final_score is an integer in [0,100].
C1_FinalScoreIsExactFloor ==
    ReturnedFrom("compute_match") =>
        LET job    == args.job
            skills == args.candidate.skills
        IN  /\ ret.final_score \in 0..100
            /\ ret.final_score =
                 ExactScore(MatchedCount(job.required_skills, skills),
                            Len(job.required_skills),
                            MatchedCount(job.nice_to_have_skills, skills),
                            Len(job.nice_to_have_skills),
                            IF args.experience_years >= job.minimum_experience_years
                            THEN 20 ELSE 0)

\* C2: decision is "Accept" exactly when final_score >= 70, "Reject" otherwise, and
\* reason depends on decision alone: "Strong overall match" for Accept, "Meets
\* experience but lacks core backend requirements" for Reject.
C2_DecisionByThreshold ==
    ReturnedFrom("compute_match") =>
        /\ ret.decision \in {"Accept", "Reject"}
        /\ ret.decision = "Accept" <=> ret.final_score >= 70
        /\ ret.decision = "Accept" => ret.reason = "Strong overall match"
        /\ ret.decision = "Reject" =>
               ret.reason = "Meets experience but lacks core backend requirements"

\* a score of exactly 70 is accepted
C2_Witness ==
    /\ ReturnedFrom("compute_match")
    /\ ret.final_score = 70
    /\ ret.decision = "Accept"

\* C3: for a non-empty wanted list compute_skill_match returns (number of wanted
\* entries matching at least one available entry) / len(wanted), each wanted entry
\* counting once, and the result lies in [0,1].
C3_CoverageIsMatchedFraction ==
    (ReturnedFrom("compute_skill_match") /\ args.jd_skills # <<>>) =>
        /\ ret = FloatDiv(MatchedCount(args.jd_skills, args.resume_skills),
                          Len(args.jd_skills))
        /\ FloatLeq(FloatZero, ret)
        /\ FloatLeq(ret, FloatOfInt(1))

\* two wanted entries, each satisfied by the same two available skills
C3_Witness ==
    /\ ReturnedFrom("compute_skill_match")
    /\ args.jd_skills = <<s_REST_APIs, s_api_testing>>
    /\ args.resume_skills = <<s_api_testing, s_REST_APIs>>
    /\ ret = FloatOfInt(1)

\* C4: compute_skill_match returns exactly 0.0 when the wanted list is empty and
\* when the available list is empty.
C4_EmptyListScoresZero ==
    (/\ ReturnedFrom("compute_skill_match")
     /\ (args.jd_skills = <<>> \/ args.resume_skills = <<>>)) =>
        ret = FloatZero

C4_Witness ==
    /\ ReturnedFrom("compute_skill_match")
    /\ args.jd_skills = <<>>
    /\ Len(args.resume_skills) = MaxSkills
    /\ ret = FloatZero

\* what the year tokens of the inputs are meant to say
YearOf ==
    (s_y2017 :> 2017) @@ (s_y2019 :> 2019) @@ (s_y2021 :> 2021) @@
    (s_y2019_padded :> 2019)

PresentTokens == {s_Present, s_present, s_PRESENT}

WellFormedRole(role) ==
    /\ role[1] \in DOMAIN YearOf
    /\ role[2] \in DOMAIN YearOf \cup PresentTokens

EndYear(token, year) == IF token \in PresentTokens THEN year ELSE YearOf[token]

RECURSIVE SumOfRanges(_, _)
SumOfRanges(roles, year) ==
    IF roles = <<>> THEN 0
    ELSE (EndYear(Head(roles)[2], year) - YearOf[Head(roles)[1]])
         + SumOfRanges(Tail(roles), year)

\* C5: when every year token is well formed, calculate_total_experience returns
\* the sum over the roles of end_year - start_year, "present" in any letter case
\* standing for the current year; overlapping ranges are summed as they are.
C5_ExperienceIsSumOfRanges ==
    ReturnedFrom("calculate_total_experience") =>
        /\ (\A k \in DOMAIN args.roles : WellFormedRole(args.roles[k])) =>
               /\ ret.error = ""
               /\ ret.value = SumOfRanges(args.roles, current_year)
        /\ args.roles = << <<s_y2017, s_y2019>>, <<s_y2019, s_y2021>> >> =>
               ret.value = 4
        /\ args.roles = << <<s_y2019, s_Present>> >> =>
               ret.value = current_year - 2019

\* two overlapping ranges, one of them open
C5_Witness ==
    /\ ReturnedFrom("calculate_total_experience")
    /\ args.roles = << <<s_y2017, s_y2021>>, <<s_y2019, s_PRESENT>> >>
    /\ ret.error = ""
    /\ ret.value = 4 + (current_year - 2019)

\* a token that is neither a present-literal nor an integer
BadToken(token) == token \notin DOMAIN YearOf \cup PresentTokens

HasBadToken(roles) ==
    \E k \in DOMAIN roles : BadToken(roles[k][1]) \/ BadToken(roles[k][2])

\* C6: a role list with a year token that is neither the present-literal nor an
\* integer makes calculate_total_experience fail, wherever the bad role is; the
\* failure leaves the pipeline, and no MatchResult exists for that candidate.
C6_BadTokenYieldsNoResult ==
    \A k \in DOMAIN candidates :
        HasBadToken(candidates[k].roles) =>
            /\ Len(results) < k
            /\ \A r \in DOMAIN results : results[r][1] # candidates[k].name
            /\ ranked = <<>>
            /\ pc # "done"
            /\ i <= k
            /\ (i = k /\ pc # "stage2") => (pc = "failed" /\ raised = "ValueError")

\* the second candidate fails on the end token of its last role
C6_Witness ==
    /\ pc = "failed"
    /\ raised = "ValueError"
    /\ i = 2
    /\ Len(results) = 1
    /\ candidates[2].roles = << <<s_y2017, s_y2019>>, <<s_y2019, s_na>> >>

Injective(f) == \A p, q \in DOMAIN f : p # q => f[p] # f[q]

\* C7: the report lists the evaluated candidates by final_score, highest first,
\* equal scores in input order, each candidate exactly once.
C7_RankedIsStableDescending ==
    pc = "done" =>
        /\ Len(results) = Len(candidates)
        /\ Len(ranked) = Len(results)
        /\ \E f \in [DOMAIN ranked -> DOMAIN results] :
               /\ Injective(f)
               /\ \A p \in DOMAIN ranked : ranked[p] = results[f[p]]
               /\ \A p, q \in DOMAIN ranked :
                      p < q =>
                          /\ ranked[p][2].final_score >= ranked[q][2].final_score
                          /\ ranked[p][2].final_score = ranked[q][2].final_score
                                 => f[p] < f[q]

\* the last candidate is ranked first, the two tied ones follow in input order
C7_Witness ==
    /\ pc = "done"
    /\ Len(results) = 3
    /\ ranked = <<results[3], results[1], results[2]>>
    /\ results[1][2].final_score = results[2][2].final_score

\* C8: normalize_skill is idempotent (no alias value is a key, every value is
\* lower-case and trimmed), so compute_skill_match of the normalized lists is
\* compute_skill_match of the lists.
C8_NormalizeIdempotent ==
    /\ ReturnedFrom("normalize_skill") =>
           /\ normalize_skill(ret) = ret
           /\ ret \notin DOMAIN SKILL_ALIASES
           /\ strip(lower(ret)) = ret
    /\ ReturnedFrom("compute_skill_match") =>
           compute_skill_match(NormalizeAll(args.jd_skills),
                               NormalizeAll(args.resume_skills)) = ret

C8_Witness ==
    /\ ReturnedFrom("normalize_skill")
    /\ args.skill = s_Postgres_padded
    /\ ret = s_postgresql

\* s[lo..hi] is a whole whitespace-delimited token of s
IsTokenAt(s, lo, hi) ==
    /\ lo <= hi
    /\ \A k \in lo..hi : ~IsSpace(s[k])
    /\ lo = 1 \/ IsSpace(s[lo - 1])
    /\ hi = Len(s) \/ IsSpace(s[hi + 1])

SharesWholeToken(a, b) ==
    \E lo \in DOMAIN a, hi \in DOMAIN a, lo2 \in DOMAIN b :
        /\ IsTokenAt(a, lo, hi)
        /\ lo2 + (hi - lo) <= Len(b)
        /\ IsTokenAt(b, lo2, lo2 + (hi - lo))
        /\ SubSeq(a, lo, hi) = SubSeq(b, lo2, lo2 + (hi - lo))

\* C9: skill_matches(a, b) is true exactly when a and b share a whole
\* whitespace-delimited token: false for "java" and "javascript", true for
\* "restful api" and "api testing".
C9_MatchIsSharedToken ==
    ReturnedFrom("skill_matches") =>
        /\ ret = SharesWholeToken(args.jd_skill, args.resume_skill)
        /\ (args.jd_skill = s_java /\ args.resume_skill = s_javascript) => ret = FALSE
        /\ (args.jd_skill = s_restful_api /\ args.resume_skill = s_api_testing) =>
               ret = TRUE

C9_Witness ==
    /\ ReturnedFrom("skill_matches")
    /\ args.jd_skill = s_restful_api
    /\ args.resume_skill = s_api_testing
    /\ ret = TRUE

\* C10: a candidate who matches no required skill is rejected with a final_score
\* of at most 40, whatever the nice-to-have coverage and the experience; so is
\* every candidate of a job without required skills.
C10_NoRequiredMatchRejects ==
    (/\ ReturnedFrom("compute_match")
     /\ MatchedCount(args.job.required_skills, args.candidate.skills) = 0) =>
        /\ ret.decision = "Reject"
        /\ ret.final_score <= 40

\* no required skills, every nice-to-have matched, experience sufficient
C10_Witness ==
    /\ ReturnedFrom("compute_match")
    /\ args.job.required_skills = <<>>
    /\ ret.nice_to_have_match = 100
    /\ ret.experience_match
    /\ ret.final_score = 40
    /\ ret.decision = "Reject"

====
